---- MODULE Spec2Model ----
(***************************************************************************)
(* BatchDistributorV2 (dual-signature batch distribution).                 *)
(*                                                                         *)
(* The contract (src/src/App.tsx, lines 159-445) is modelled as a state    *)
(* machine whose steps are whole transactions; the off-chain companion     *)
(* (getTypedData in src/unnamed/part_000, sum in src/src/utils.ts) is      *)
(* modelled as operators.  256-bit unsigned integers are scaled down to    *)
(* 0..UintMax; keccak256 and abi.encode are modelled as injective          *)
(* constructors, an ECDSA signature as the pair (signer, signed digest).   *)
(***************************************************************************)
EXTENDS Integers, Sequences, FiniteSets, TLC

\* ------------------------------------------------------------------------
\* Bounds
\* ------------------------------------------------------------------------
UintMax == 3          \* largest value of the unsigned integer type (scaled 2^256-1)
MaxAmt == 2           \* largest single amount a caller passes
MaxLen == 2           \* longest recipients / amounts array a caller passes
MaxBatchId == 2       \* batch ids are 0 (bytes32(0)) .. MaxBatchId
MaxTime == 1          \* block timestamps and deadlines are 0 .. MaxTime

\* ------------------------------------------------------------------------
\* Identities
\* ------------------------------------------------------------------------
ADDR0 == "0x0"        \* address(0)
This == "this"        \* address(this), the deployed distributor
Admin == "admin"      \* constructor argument admin
Verifier == "V"       \* an account that may be granted roles
Submitter == "S"      \* an account that only signs
R1 == "R1"
R2 == "R2"            \* a recipient whose incoming transfers may fail
Phantom == "phantom"  \* the address ecrecover yields for a signature checked
                      \* against a digest it was not made for
USDT == "USDT"        \* constructor argument usdt
IGNET == "IGNET"      \* a second token, not whitelisted at construction

ADMIN_ROLE == "ADMIN_ROLE"
VERIFIER_ROLE == "VERIFIER_ROLE"
DEFAULT_ADMIN_ROLE == "DEFAULT_ADMIN_ROLE"
Roles == {DEFAULT_ADMIN_ROLE, ADMIN_ROLE, VERIFIER_ROLE}

InitMaxBatchSize == 500
ChainId == 56         \* BSC_CHAIN_ID, the chain the contract is deployed on
OtherChainId == 97

Tokens == {USDT, IGNET}
BatchIds == 0..MaxBatchId
Holders == {This, Admin, Verifier, R1, R2}
RecipientAddrs == {ADDR0, R1, R2}
Times == 0..MaxTime

SeqsUpTo(S, n) == UNION {[1..k -> S] : k \in 0..n}

\* ------------------------------------------------------------------------
\* Hashing, encoding, signatures
\* ------------------------------------------------------------------------
\* keccak256: collision-free, so an injective constructor
Keccak(x) == <<"keccak256", x>>

\* abi.encode of one dynamic array: offset word, length word, the elements
AbiEncodeArray(a) == <<32, Len(a)>> \o a

\* Solidity 0.8 checked addition in _sum: the exact sum, or a panic
RECURSIVE SumFrom(_, _)
SumFrom(amounts, i) ==
    IF i > Len(amounts) THEN 0 ELSE amounts[i] + SumFrom(amounts, i + 1)

\* _sum in unchecked arithmetic: the sum modulo 2^w
_sumUnchecked(amounts) ==
    [panic |-> FALSE, total |-> SumFrom(amounts, 1) % (UintMax + 1)]

_sum(amounts) ==
    IF SumFrom(amounts, 1) > UintMax
    THEN [panic |-> TRUE, total |-> 0]
    ELSE [panic |-> FALSE, total |-> SumFrom(amounts, 1)]

\* utils.ts sum: bigint reduce, arbitrary precision
sum(arr) == SumFrom(arr, 1)

\* the type string "BatchToken(bytes32 batchId,address token,...)" as its
\* ordered list of (type, name) members
BatchTokenMembers ==
    << <<"bytes32", "batchId">>, <<"address", "token">>,
       <<"bytes32", "recipientsHash">>, <<"bytes32", "amountsHash">>,
       <<"uint256", "totalAmount">>, <<"uint256", "deadline">> >>

BATCH_TOKEN_TYPEHASH == Keccak(<<"BatchToken", BatchTokenMembers>>)

EIP712DomainMembers ==
    << <<"string", "name">>, <<"string", "version">>,
       <<"uint256", "chainId">>, <<"address", "verifyingContract">> >>

\* EIP712("BatchDistributorV2", "1"): the domain separator of a deployment
DomainSeparator(chainId, self) ==
    Keccak(<<Keccak(<<"EIP712Domain", EIP712DomainMembers>>),
             Keccak("BatchDistributorV2"), Keccak("1"), chainId, self>>)

\* _hashTypedDataV4 with a domain separator cached for another chain id
_hashTypedDataV4Cached(chainId, self, structHash) ==
    Keccak(<<"\\x19\\x01", DomainSeparator(OtherChainId, self), structHash>>)

_hashTypedDataV4(chainId, self, structHash) ==
    Keccak(<<"\\x19\\x01", DomainSeparator(chainId, self), structHash>>)

\* getBatchTokenDigest, evaluated on the deployment (chainId, self)
getBatchTokenDigest(chainId, self, batchId, token, recipients, amounts, deadline) ==
    LET recipientsHash == Keccak(AbiEncodeArray(recipients))
        amountsHash == Keccak(AbiEncodeArray(amounts))
        s == _sum(amounts)
        structHash == Keccak(<<BATCH_TOKEN_TYPEHASH, batchId, token,
                               recipientsHash, amountsHash, s.total, deadline>>)
    IN  [panic |-> s.panic,
         digest |-> IF s.panic THEN <<>> ELSE _hashTypedDataV4(chainId, self, structHash)]

\* getTypedData with totalAmount and deadline listed in the other order
getTypedDataReordered(chainId, verifyingContract, batchId, token, recipients, amounts, deadline) ==
    LET recipientsHash == Keccak(AbiEncodeArray(recipients))
        amountsHash == Keccak(AbiEncodeArray(amounts))
        totalAmount == sum(amounts)
    IN  [domain |-> [name |-> "BatchDistributorV2", version |-> "1",
                     chainId |-> chainId, verifyingContract |-> verifyingContract],
         types |-> [BatchToken |->
                      << <<"bytes32", "batchId">>, <<"address", "token">>,
                         <<"bytes32", "recipientsHash">>, <<"bytes32", "amountsHash">>,
                         <<"uint256", "deadline">>, <<"uint256", "totalAmount">> >>],
         value |-> [batchId |-> batchId, token |-> token,
                    recipientsHash |-> recipientsHash, amountsHash |-> amountsHash,
                    totalAmount |-> totalAmount, deadline |-> deadline]]

\* getTypedData (off-chain companion)
getTypedData(chainId, verifyingContract, batchId, token, recipients, amounts, deadline) ==
    LET recipientsHash == Keccak(AbiEncodeArray(recipients))
        amountsHash == Keccak(AbiEncodeArray(amounts))
        totalAmount == sum(amounts)
    IN  [domain |-> [name |-> "BatchDistributorV2", version |-> "1",
                     chainId |-> chainId, verifyingContract |-> verifyingContract],
         types |-> [BatchToken |->
                      << <<"bytes32", "batchId">>, <<"address", "token">>,
                         <<"bytes32", "recipientsHash">>, <<"bytes32", "amountsHash">>,
                         <<"uint256", "totalAmount">>, <<"uint256", "deadline">> >>],
         value |-> [batchId |-> batchId, token |-> token,
                    recipientsHash |-> recipientsHash, amountsHash |-> amountsHash,
                    totalAmount |-> totalAmount, deadline |-> deadline]]

\* what signer.signTypedData hashes (ethers TypedDataEncoder.hash): the
\* domain hash and the struct hash, members encoded in the order of `types`
TypedDataHash(td) ==
    LET members == td.types.BatchToken
        domainHash ==
            Keccak(<<Keccak(<<"EIP712Domain", EIP712DomainMembers>>),
                     Keccak(td.domain.name), Keccak(td.domain.version),
                     td.domain.chainId, td.domain.verifyingContract>>)
        structHash ==
            Keccak(<<Keccak(<<"BatchToken", members>>)>>
                   \o [i \in 1..Len(members) |-> td.value[members[i][2]]])
    IN  Keccak(<<"\\x19\\x01", domainHash, structHash>>)

\* a 65-byte signature by `signer` over `digest`; Malformed is a byte string
\* that is no signature
Sign(signer, digest) == [signer |-> signer, digest |-> digest]
Malformed == [signer |-> ADDR0, digest |-> <<>>]

\* ECDSA.recover: reverts on a malformed signature (the library never
\* returns address(0)); on a well-formed one returns the signer when the
\* digest is the signed one and an unrelated address otherwise
Recover(digest, sig) ==
    IF sig = Malformed THEN [reverted |-> TRUE, addr |-> ADDR0]
    ELSE IF sig.digest = digest THEN [reverted |-> FALSE, addr |-> sig.signer]
    ELSE [reverted |-> FALSE, addr |-> Phantom]

\* ------------------------------------------------------------------------
\* State
\* ------------------------------------------------------------------------
VARIABLES
    roles,             \* AccessControl: role -> set of accounts holding it
    paused,            \* Pausable
    whitelistedToken,  \* mapping(address => bool)
    isBatchExecuted,   \* mapping(bytes32 => bool)
    maxBatchSize,      \* uint256
    tokenBalance,      \* the ERC-20 ledgers: token -> holder -> balance
    nativeBalance,     \* native coin: holder -> balance
    now,               \* block.timestamp
    log,               \* the TransferItem / BatchExecuted* events emitted so far
    last               \* the transaction just mined: call data, error, events

vars == <<roles, paused, whitelistedToken, isBatchExecuted, maxBatchSize,
          tokenBalance, nativeBalance, now, log, last>>

TokenHolders == {This, R1, R2}

\* the chain state as one value, so that a handler is a function of it
Cur ==
    [roles |-> roles, paused |-> paused, whitelistedToken |-> whitelistedToken,
     isBatchExecuted |-> isBatchExecuted, maxBatchSize |-> maxBatchSize,
     tokenBalance |-> tokenBalance, nativeBalance |-> nativeBalance,
     now |-> now, log |-> log]

\* events
TransferItem(batchId, token, to, amount) ==
    [ev |-> "TransferItem", batchId |-> batchId, token |-> token,
     to |-> to, amount |-> amount]

BatchExecuted(batchId, token, executedBy, n, total, ts) ==
    [ev |-> "BatchExecuted", batchId |-> batchId, token |-> token,
     executedBy |-> executedBy, recipients |-> n, totalAmount |-> total,
     timestamp |-> ts]

BatchExecutedWithDualSig(batchId, token, submitter, executor, n, total, ts) ==
    [ev |-> "BatchExecutedWithDualSig", batchId |-> batchId, token |-> token,
     submitter |-> submitter, verifierExecutor |-> executor, recipients |-> n,
     totalAmount |-> total, timestamp |-> ts]

TokenWhitelistUpdated(token, whitelisted) ==
    [ev |-> "TokenWhitelistUpdated", token |-> token, whitelisted |-> whitelisted]

\* what the accounts hold when the contract is deployed
Funds == 2

\* constructor(admin, usdt, igate) with admin = Admin, usdt = USDT and
\* igate = address(0); the distributor holds Funds of each token and one
\* native coin, the admin Funds native coins
Constructed ==
    [roles |-> [r \in Roles |-> {Admin}],
     paused |-> FALSE,
     whitelistedToken |-> [t \in Tokens |-> t = USDT],
     isBatchExecuted |-> [b \in BatchIds |-> FALSE],
     maxBatchSize |-> InitMaxBatchSize,
     tokenBalance |-> [t \in Tokens |->
                         [h \in TokenHolders |-> IF h = This THEN Funds ELSE 0]],
     nativeBalance |-> [h \in Holders |->
                          IF h = This THEN 1
                          ELSE IF h = Admin THEN Funds ELSE 0],
     now |-> 0,
     log |-> << >>]

\* no transaction: the value of `last` between two transactions, and the
\* call of a recipient that makes none
NoCall == [op |-> "none"]

\* what R2, a contract, does when a transfer hands it control: it calls the
\* distributor with hook.tx and, when that call fails, either goes on
\* (hook.swallow) or reverts
NoHook == [tx |-> NoCall, swallow |-> TRUE]

\* a transaction: the operation and its call data.  xfer and hook are the
\* behaviour of the outside world the call meets: how a transfer to R2 ends
\* and what R2 does while the transfer gives it control.
Tx(op, caller) ==
    [op |-> op, caller |-> caller, batchId |-> 0, token |-> ADDR0,
     recipients |-> << >>, amounts |-> << >>, deadline |-> 0, submitter |-> ADDR0,
     sig |-> Malformed, xfer |-> "ok", value |-> 0, allowed |-> FALSE,
     role |-> "", account |-> ADDR0, hook |-> NoHook]

TokenTx(caller, batchId, token, recipients, amounts, deadline, submitter, sig, xfer) ==
    [Tx("token", caller) EXCEPT !.batchId = batchId, !.token = token,
        !.recipients = recipients, !.amounts = amounts, !.deadline = deadline,
        !.submitter = submitter, !.sig = sig, !.xfer = xfer]

NativeTx(caller, batchId, recipients, amounts, value, xfer) ==
    [Tx("native", caller) EXCEPT !.batchId = batchId, !.recipients = recipients,
        !.amounts = amounts, !.value = value, !.xfer = xfer]

\* a plain transfer of native coin to the distributor, with empty call data
ReceiveTx(caller, value) == [Tx("receive", caller) EXCEPT !.value = value]

WithHook(tx, hook) == [tx EXCEPT !.hook = hook]

\* the result of a transaction: a revert leaves the state as it was.  inner
\* lists the calls the recipients made while they had control, each with
\* its outcome.
RevertWith(st, e, inner) == [err |-> e, st |-> st, evs |-> << >>, inner |-> inner]
DoneWith(st, evs, inner) == [err |-> "ok", st |-> st, evs |-> evs, inner |-> inner]
Revert(st, e) == RevertWith(st, e, << >>)
Done(st, evs) == DoneWith(st, evs, << >>)

\* the sender can pay the value it attaches
Funded(st, tx) ==
    tx.op \in {"native", "receive"} => st.nativeBalance[tx.caller] >= tx.value

\* ------------------------------------------------------------------------
\* Internal helpers of the contract
\* ------------------------------------------------------------------------
\* _precheckBatch without the replay check
_precheckBatchNoReplay(st, batchId, recipientsLen, amountsLen) ==
    IF batchId = 0 THEN "InvalidAmount"
    ELSE IF recipientsLen = 0 THEN "EmptyBatch"
    ELSE IF recipientsLen # amountsLen THEN "InvalidArrayLengths"
    ELSE IF recipientsLen > st.maxBatchSize THEN "BatchTooLarge"
    ELSE ""

\* _precheckBatch with the size check before the length comparison
_precheckBatchSizeFirst(st, batchId, recipientsLen, amountsLen) ==
    IF batchId = 0 THEN "InvalidAmount"
    ELSE IF st.isBatchExecuted[batchId] THEN "BatchAlreadyExecuted"
    ELSE IF recipientsLen = 0 THEN "EmptyBatch"
    ELSE IF recipientsLen > st.maxBatchSize
         THEN "BatchTooLarge"
    ELSE IF recipientsLen # amountsLen THEN "InvalidArrayLengths"
    ELSE ""

\* _precheckBatch: "" when every check passes, else the error
_precheckBatch(st, batchId, recipientsLen, amountsLen) ==
    IF batchId = 0 THEN "InvalidAmount"
    ELSE IF st.isBatchExecuted[batchId] THEN "BatchAlreadyExecuted"
    ELSE IF recipientsLen = 0 THEN "EmptyBatch"
    ELSE IF recipientsLen # amountsLen THEN "InvalidArrayLengths"
    ELSE IF recipientsLen > st.maxBatchSize THEN "BatchTooLarge"
    ELSE ""

\* receive() external payable {}: the attached value is credited, nothing
\* else happens, nobody is refused
receive(st, tx) ==
    Done([st EXCEPT !.nativeBalance[tx.caller] = @ - tx.value,
                    !.nativeBalance[This] = @ + tx.value],
         << >>)

pause(st, tx) ==
    IF tx.caller \notin st.roles[ADMIN_ROLE]
    THEN Revert(st, "AccessControlUnauthorizedAccount")
    ELSE IF st.paused THEN Revert(st, "EnforcedPause")
    ELSE Done([st EXCEPT !.paused = TRUE], << >>)

unpause(st, tx) ==
    IF tx.caller \notin st.roles[ADMIN_ROLE]
    THEN Revert(st, "AccessControlUnauthorizedAccount")
    ELSE IF ~st.paused THEN Revert(st, "ExpectedPause")
    ELSE Done([st EXCEPT !.paused = FALSE], << >>)

setMaxBatchSize(st, tx) ==
    IF tx.caller \notin st.roles[ADMIN_ROLE]
    THEN Revert(st, "AccessControlUnauthorizedAccount")
    ELSE IF tx.value = 0 THEN Revert(st, "InvalidAmount")
    ELSE Done([st EXCEPT !.maxBatchSize = tx.value], << >>)

setTokenWhitelisted(st, tx) ==
    IF tx.caller \notin st.roles[ADMIN_ROLE]
    THEN Revert(st, "AccessControlUnauthorizedAccount")
    ELSE IF tx.token = ADDR0 THEN Revert(st, "ZeroAddress")
    ELSE Done([st EXCEPT !.whitelistedToken[tx.token] = tx.allowed],
              << TokenWhitelistUpdated(tx.token, tx.allowed) >>)

\* AccessControl.grantRole / revokeRole: every role is administered by
\* DEFAULT_ADMIN_ROLE
grantRole(st, tx) ==
    IF tx.caller \notin st.roles[DEFAULT_ADMIN_ROLE]
    THEN Revert(st, "AccessControlUnauthorizedAccount")
    ELSE Done([st EXCEPT !.roles[tx.role] = @ \cup {tx.account}], << >>)

revokeRole(st, tx) ==
    IF tx.caller \notin st.roles[DEFAULT_ADMIN_ROLE]
    THEN Revert(st, "AccessControlUnauthorizedAccount")
    ELSE Done([st EXCEPT !.roles[tx.role] = @ \ {tx.account}], << >>)

\* AccessControl.renounceRole(role, callerConfirmation): an account gives up
\* a role of its own; no role is needed to call it
renounceRole(st, tx) ==
    IF tx.account # tx.caller THEN Revert(st, "AccessControlBadConfirmation")
    ELSE Done([st EXCEPT !.roles[tx.role] = @ \ {tx.account}], << >>)

\* the read-only helpers called from outside (eth_call): a view function
\* returns a value or reverts and writes nothing
getBatchTokenDigestCall(st, tx) ==
    LET d == getBatchTokenDigest(ChainId, This, tx.batchId, tx.token, tx.recipients,
                                 tx.amounts, tx.deadline)
    IN  IF d.panic THEN Revert(st, "Panic") ELSE Done(st, << >>)

recoverSubmitter(st, tx) ==
    LET d == getBatchTokenDigest(ChainId, This, tx.batchId, tx.token, tx.recipients,
                                 tx.amounts, tx.deadline)
    IN  IF d.panic THEN Revert(st, "Panic")
        ELSE IF Recover(d.digest, tx.sig).reverted
             THEN Revert(st, "ECDSAInvalidSignature")
        ELSE Done(st, << >>)

\* the contract's dispatch on the functions that carry no reentrancy guard
\* and make no call out of the contract
ApplyOpen(st, tx) ==
    CASE tx.op = "receive" -> receive(st, tx)
      [] tx.op = "pause" -> pause(st, tx)
      [] tx.op = "unpause" -> unpause(st, tx)
      [] tx.op = "setMaxBatchSize" -> setMaxBatchSize(st, tx)
      [] tx.op = "setTokenWhitelisted" -> setTokenWhitelisted(st, tx)
      [] tx.op = "grantRole" -> grantRole(st, tx)
      [] tx.op = "revokeRole" -> revokeRole(st, tx)
      [] tx.op = "renounceRole" -> renounceRole(st, tx)
      [] tx.op = "getBatchTokenDigest" -> getBatchTokenDigestCall(st, tx)
      [] tx.op = "recoverSubmitter" -> recoverSubmitter(st, tx)

\* ------------------------------------------------------------------------
\* Transfers.  R2 is a contract: when it is paid (native push, or the
\* token's notification of the recipient) its code runs, and the
\* distributor's _status is ENTERED all the while.
\* ------------------------------------------------------------------------
\* an execution function entered while _status is ENTERED, were it to lack
\* the nonReentrant modifier: the payments of the inner batch go to plain
\* accounts
RECURSIVE PayPlain(_, _, _, _)
PayPlain(st, tx, i, evs) ==
    IF i > Len(tx.recipients) THEN [err |-> "ok", st |-> st, evs |-> evs]
    ELSE LET to == tx.recipients[i]
             amt == tx.amounts[i]
             token == IF tx.op = "token" THEN tx.token ELSE ADDR0
             held == IF tx.op = "token" THEN st.tokenBalance[tx.token][This]
                     ELSE st.nativeBalance[This]
             paid == IF tx.op = "token"
                     THEN [st EXCEPT !.tokenBalance[tx.token][This] = @ - amt,
                                     !.tokenBalance[tx.token][to] = @ + amt]
                     ELSE [st EXCEPT !.nativeBalance[This] = @ - amt,
                                     !.nativeBalance[to] = @ + amt]
         IN  IF to = ADDR0 THEN [err |-> "ZeroAddress", st |-> st, evs |-> evs]
             ELSE IF amt = 0 THEN [err |-> "InvalidAmount", st |-> st, evs |-> evs]
             ELSE IF held < amt
             THEN [err |-> "TransferFailed", st |-> st, evs |-> evs]
             ELSE PayPlain(paid, tx, i + 1,
                           Append(evs, TransferItem(tx.batchId, token, to, amt)))

ReentryUnguarded(st, tx) ==
    LET pre == _precheckBatch(st, tx.batchId, Len(tx.recipients), Len(tx.amounts))
        d == getBatchTokenDigest(ChainId, This, tx.batchId, tx.token, tx.recipients,
                                 tx.amounts, tx.deadline)
        rec == Recover(d.digest, tx.sig)
        total == _sum(tx.amounts)
        entered == [st EXCEPT !.nativeBalance[tx.caller] = @ - tx.value,
                              !.nativeBalance[This] = @ + tx.value,
                              !.isBatchExecuted[tx.batchId] = TRUE]
        loop == PayPlain(entered, tx, 1, << >>)
        evs == Append(loop.evs,
                      BatchExecuted(tx.batchId, IF tx.op = "token" THEN tx.token ELSE ADDR0,
                                    tx.caller, Len(tx.recipients), total.total, st.now))
    IN  IF tx.caller \notin st.roles[IF tx.op = "token" THEN VERIFIER_ROLE ELSE ADMIN_ROLE]
        THEN Revert(st, "AccessControlUnauthorizedAccount")
        ELSE IF st.paused THEN Revert(st, "EnforcedPause")
        ELSE IF tx.op = "token" /\ ~st.whitelistedToken[tx.token]
             THEN Revert(st, "TokenNotWhitelisted")
        ELSE IF pre # "" THEN Revert(st, pre)
        ELSE IF total.panic THEN Revert(st, "Panic")
        ELSE IF tx.op = "token" /\ (rec.reverted \/ rec.addr # tx.submitter
                                    \/ tx.submitter = tx.caller)
             THEN Revert(st, "InvalidSigner")
        ELSE IF tx.op = "native" /\ tx.value # total.total
             THEN Revert(st, "NATIVE_VALUE_MISMATCH")
        ELSE IF loop.err # "ok" THEN Revert(st, loop.err)
        ELSE Done([loop.st EXCEPT !.log = @ \o evs], evs)

\* a call into an execution function made while _status is ENTERED: the
\* modifiers onlyRole, whenNotPaused, nonReentrant in this order
Reentry(st, tx) ==
    IF tx.caller \notin st.roles[IF tx.op = "token" THEN VERIFIER_ROLE ELSE ADMIN_ROLE]
    THEN Revert(st, "AccessControlUnauthorizedAccount")
    ELSE IF st.paused THEN Revert(st, "EnforcedPause")
    ELSE Revert(st, "ReentrancyGuardReentrantCall")

\* a call made by a recipient while an execution is under way.  A call that
\* attaches more coin than its sender holds does not reach the distributor;
\* the two execution functions meet the reentrancy guard; every other
\* function carries no guard and runs as at any other time.
InnerCall(st, tx) ==
    IF ~Funded(st, tx) THEN Revert(st, "InsufficientFunds")
    ELSE IF tx.op \in {"token", "native"} THEN Reentry(st, tx)
    ELSE ApplyOpen(st, tx)

\* control is with R2 in state st: the call it makes, the state that call
\* leaves, and whether R2 lets the transfer complete
Answer(r, hook) ==
    [ok |-> r.err = "ok" \/ hook.swallow, st |-> r.st,
     inner |-> << [tx |-> hook.tx, err |-> r.err, evs |-> r.evs] >>]

Callback(st, hook) ==
    IF hook = NoHook
    THEN [ok |-> TRUE, st |-> st, inner |-> << >>]
    ELSE Answer(InnerCall(st, hook.tx), hook)

\* IERC20(token).transfer(to, amt) called by the distributor in state st.
\* `xfer` is how the token treats a transfer to R2 in this transaction:
\* "ok", "revert" (it reverts) or "false" (it returns false and moves
\* nothing).  Other transfers follow the ERC-20 rules.  A token that
\* notifies the recipient hands control to R2 once the amount has moved;
\* the transfer reverts when R2 does.
Notified(st, cb) ==
    IF cb.ok
    THEN [reverted |-> FALSE, success |-> TRUE, st |-> cb.st, inner |-> cb.inner]
    ELSE [reverted |-> TRUE, success |-> FALSE, st |-> st, inner |-> cb.inner]

Erc20Transfer(st, token, to, amt, xfer, hook) ==
    IF st.tokenBalance[token][This] < amt \/ (to = R2 /\ xfer = "revert")
    THEN [reverted |-> TRUE, success |-> FALSE, st |-> st, inner |-> << >>]
    ELSE IF to = R2 /\ xfer = "false"
    THEN [reverted |-> FALSE, success |-> FALSE, st |-> st, inner |-> << >>]
    ELSE Notified(st, Callback([st EXCEPT !.tokenBalance[token][This] = @ - amt,
                                          !.tokenBalance[token][to] = @ + amt],
                               IF to = R2 THEN hook ELSE NoHook))

\* the transfer loop of batchDistributeTokenDualSig from index i on; the
\* returned bool of transfer is not looked at
RECURSIVE TokenLoop(_, _, _, _, _)
TokenLoop(st, tx, i, evs, inner) ==
    IF i > Len(tx.recipients)
    THEN [err |-> "ok", st |-> st, evs |-> evs, inner |-> inner]
    ELSE LET to == tx.recipients[i]
             amt == tx.amounts[i]
             t == Erc20Transfer(st, tx.token, to, amt, tx.xfer, tx.hook)
         IN  IF to = ADDR0
             THEN [err |-> "ZeroAddress", st |-> st, evs |-> evs, inner |-> inner]
             ELSE IF amt = 0
             THEN [err |-> "InvalidAmount", st |-> st, evs |-> evs, inner |-> inner]
             ELSE IF t.reverted
             THEN [err |-> "TransferReverted", st |-> st, evs |-> evs,
                   inner |-> inner \o t.inner]
             ELSE TokenLoop(t.st, tx, i + 1,
                            Append(evs, TransferItem(tx.batchId, tx.token, to, amt)),
                            inner \o t.inner)

\* to.call{value: amt}("") made by the distributor in state st: R2 is a
\* contract that rejects the payment unless xfer = "ok"; the amount has
\* moved when R2's code runs, and the call fails when R2 reverts
Delivered(st, cb) ==
    IF cb.ok THEN [ok |-> TRUE, st |-> cb.st, inner |-> cb.inner]
    ELSE [ok |-> FALSE, st |-> st, inner |-> cb.inner]

NativeSend(st, to, amt, xfer, hook) ==
    IF st.nativeBalance[This] < amt \/ (to = R2 /\ xfer # "ok")
    THEN [ok |-> FALSE, st |-> st, inner |-> << >>]
    ELSE Delivered(st, Callback([st EXCEPT !.nativeBalance[This] = @ - amt,
                                           !.nativeBalance[to] = @ + amt],
                                IF to = R2 THEN hook ELSE NoHook))

RECURSIVE NativeLoop(_, _, _, _, _)
NativeLoop(st, tx, i, evs, inner) ==
    IF i > Len(tx.recipients)
    THEN [err |-> "ok", st |-> st, evs |-> evs, inner |-> inner]
    ELSE LET to == tx.recipients[i]
             amt == tx.amounts[i]
             t == NativeSend(st, to, amt, tx.xfer, tx.hook)
         IN  IF to = ADDR0
             THEN [err |-> "ZeroAddress", st |-> st, evs |-> evs, inner |-> inner]
             ELSE IF amt = 0
             THEN [err |-> "InvalidAmount", st |-> st, evs |-> evs, inner |-> inner]
             ELSE IF ~t.ok
             THEN [err |-> "NATIVE_TRANSFER_FAILED", st |-> st, evs |-> evs,
                   inner |-> inner \o t.inner]
             ELSE NativeLoop(t.st, tx, i + 1,
                             Append(evs, TransferItem(tx.batchId, ADDR0, to, amt)),
                             inner \o t.inner)

\* ------------------------------------------------------------------------
\* The handlers, as functions of the state and the transaction
\* ------------------------------------------------------------------------
\* batchDistributeTokenDualSig with the comparison of the recovered signer
\* (checkSigner) or the separation-of-duty check (checkDuty) left out
TokenWith(st, tx, checkSigner, checkDuty) ==
    LET pre == _precheckBatch(st, tx.batchId, Len(tx.recipients), Len(tx.amounts))
        d == getBatchTokenDigest(ChainId, This, tx.batchId, tx.token, tx.recipients,
                                 tx.amounts, tx.deadline)
        rec == Recover(d.digest, tx.sig)
        total == _sum(tx.amounts)
        entered == [st EXCEPT !.isBatchExecuted[tx.batchId] = TRUE]
        loop == TokenLoop(entered, tx, 1, << >>, << >>)
        evs == loop.evs \o
               << BatchExecutedWithDualSig(tx.batchId, tx.token, tx.submitter, tx.caller,
                                           Len(tx.recipients), total.total, st.now),
                  BatchExecuted(tx.batchId, tx.token, tx.caller, Len(tx.recipients),
                                total.total, st.now) >>
    IN  IF tx.caller \notin st.roles[VERIFIER_ROLE]
        THEN Revert(st, "AccessControlUnauthorizedAccount")
        ELSE IF st.paused THEN Revert(st, "EnforcedPause")
        ELSE IF ~st.whitelistedToken[tx.token] THEN Revert(st, "TokenNotWhitelisted")
        ELSE IF pre # "" THEN Revert(st, pre)
        ELSE IF d.panic THEN Revert(st, "Panic")
        ELSE IF rec.reverted THEN Revert(st, "ECDSAInvalidSignature")
        ELSE IF rec.addr = ADDR0 THEN Revert(st, "InvalidSignature")
        ELSE IF checkSigner /\ rec.addr # tx.submitter THEN Revert(st, "InvalidSigner")
        ELSE IF checkDuty /\ tx.submitter = tx.caller
             THEN Revert(st, "SameSubmitterAndExecutorNotAllowed")
        ELSE IF ~(st.tokenBalance[tx.token][This] >= total.total)
             THEN Revert(st, "INSUFFICIENT_TOKEN_BALANCE")
        ELSE IF loop.err # "ok" THEN RevertWith(st, loop.err, loop.inner)
        ELSE DoneWith([loop.st EXCEPT !.log = @ \o evs], evs, loop.inner)

batchDistributeTokenDualSigAnySigner(st, tx) == TokenWith(st, tx, FALSE, TRUE)

batchDistributeTokenDualSigNoDuty(st, tx) == TokenWith(st, tx, TRUE, FALSE)

batchDistributeTokenDualSig(st, tx) ==
    LET pre == _precheckBatch(st, tx.batchId, Len(tx.recipients), Len(tx.amounts))
        d == getBatchTokenDigest(ChainId, This, tx.batchId, tx.token, tx.recipients,
                                 tx.amounts, tx.deadline)
        rec == Recover(d.digest, tx.sig)
        total == _sum(tx.amounts)
        \* the batch is marked before the first transfer
        entered == [st EXCEPT !.isBatchExecuted[tx.batchId] = TRUE]
        loop == TokenLoop(entered, tx, 1, << >>, << >>)
        evs == loop.evs \o
               << BatchExecutedWithDualSig(tx.batchId, tx.token, tx.submitter, tx.caller,
                                           Len(tx.recipients), total.total, st.now),
                  BatchExecuted(tx.batchId, tx.token, tx.caller, Len(tx.recipients),
                                total.total, st.now) >>
    IN  IF tx.caller \notin st.roles[VERIFIER_ROLE]
        THEN Revert(st, "AccessControlUnauthorizedAccount")
        ELSE IF st.paused THEN Revert(st, "EnforcedPause")
        ELSE IF ~st.whitelistedToken[tx.token] THEN Revert(st, "TokenNotWhitelisted")
        ELSE IF pre # "" THEN Revert(st, pre)
        ELSE IF d.panic THEN Revert(st, "Panic")
        ELSE IF rec.reverted THEN Revert(st, "ECDSAInvalidSignature")
        ELSE IF rec.addr = ADDR0 THEN Revert(st, "InvalidSignature")
        ELSE IF rec.addr # tx.submitter THEN Revert(st, "InvalidSigner")
        ELSE IF tx.submitter = tx.caller
             THEN Revert(st, "SameSubmitterAndExecutorNotAllowed")
        ELSE IF ~(st.tokenBalance[tx.token][This] >= total.total)
             THEN Revert(st, "INSUFFICIENT_TOKEN_BALANCE")
        ELSE IF loop.err # "ok" THEN RevertWith(st, loop.err, loop.inner)
        ELSE DoneWith([loop.st EXCEPT !.log = @ \o evs], evs, loop.inner)

\* the native transfer loop with `continue` in place of the two reverts
RECURSIVE NativeLoopSkipping(_, _, _, _, _)
NativeLoopSkipping(st, tx, i, evs, inner) ==
    IF i > Len(tx.recipients)
    THEN [err |-> "ok", st |-> st, evs |-> evs, inner |-> inner]
    ELSE LET to == tx.recipients[i]
             amt == tx.amounts[i]
             t == NativeSend(st, to, amt, tx.xfer, tx.hook)
         IN  IF to = ADDR0 \/ amt = 0
             THEN NativeLoopSkipping(st, tx, i + 1, evs, inner)
             ELSE IF ~t.ok
             THEN [err |-> "NATIVE_TRANSFER_FAILED", st |-> st, evs |-> evs,
                   inner |-> inner \o t.inner]
             ELSE NativeLoopSkipping(t.st, tx, i + 1,
                                     Append(evs, TransferItem(tx.batchId, ADDR0, to, amt)),
                                     inner \o t.inner)

\* batchDistributeNative that forgets to mark the batch (Unmarked), keeps
\* only the latest batch in the ledger (LatestOnly), marks every batch
\* (MarksAll), lacks its role and pause modifiers (Ungated), accepts an
\* attached value above the total (Overpaid), or skips the entries with a
\* zero recipient or amount (SkipsZero)
NativeWith(st, tx, ledger, gated, exact, strict) ==
    LET pre == _precheckBatch(st, tx.batchId, Len(tx.recipients), Len(tx.amounts))
        total == _sum(tx.amounts)
        entered == [st EXCEPT !.nativeBalance[tx.caller] = @ - tx.value,
                              !.nativeBalance[This] = @ + tx.value,
                              !.isBatchExecuted = ledger]
        loop == IF strict
                THEN NativeLoop(entered, tx, 1, << >>, << >>)
                ELSE NativeLoopSkipping(entered, tx, 1, << >>, << >>)
        evs == Append(loop.evs,
                      BatchExecuted(tx.batchId, ADDR0, tx.caller, Len(tx.recipients),
                                    total.total, st.now))
    IN  IF gated /\ tx.caller \notin st.roles[ADMIN_ROLE]
        THEN Revert(st, "AccessControlUnauthorizedAccount")
        ELSE IF gated /\ st.paused THEN Revert(st, "EnforcedPause")
        ELSE IF pre # "" THEN Revert(st, pre)
        ELSE IF total.panic THEN Revert(st, "Panic")
        ELSE IF (IF exact THEN tx.value # total.total ELSE tx.value < total.total)
             THEN Revert(st, "NATIVE_VALUE_MISMATCH")
        ELSE IF loop.err # "ok" THEN RevertWith(st, loop.err, loop.inner)
        ELSE DoneWith([loop.st EXCEPT !.log = @ \o evs], evs, loop.inner)

batchDistributeNativeUnmarked(st, tx) ==
    NativeWith(st, tx, st.isBatchExecuted, TRUE, TRUE, TRUE)

batchDistributeNativeLatestOnly(st, tx) ==
    NativeWith(st, tx, [b \in BatchIds |-> b = tx.batchId], TRUE, TRUE, TRUE)

batchDistributeNativeMarksAll(st, tx) ==
    NativeWith(st, tx, [b \in BatchIds |-> TRUE], TRUE, TRUE, TRUE)

batchDistributeNativeUngated(st, tx) ==
    NativeWith(st, tx, [st.isBatchExecuted EXCEPT ![tx.batchId] = TRUE], FALSE, TRUE, TRUE)

batchDistributeNativeOverpaid(st, tx) ==
    NativeWith(st, tx, [st.isBatchExecuted EXCEPT ![tx.batchId] = TRUE], TRUE, FALSE, TRUE)

batchDistributeNativeSkipsZero(st, tx) ==
    NativeWith(st, tx, [st.isBatchExecuted EXCEPT ![tx.batchId] = TRUE], TRUE, TRUE,
               FALSE)

batchDistributeNative(st, tx) ==
    LET pre == _precheckBatch(st, tx.batchId, Len(tx.recipients), Len(tx.amounts))
        total == _sum(tx.amounts)
        \* msg.value is credited to the contract before its code runs, and
        \* the batch is marked before the first payment
        entered == [st EXCEPT !.nativeBalance[tx.caller] = @ - tx.value,
                              !.nativeBalance[This] = @ + tx.value,
                              !.isBatchExecuted[tx.batchId] = TRUE]
        loop == NativeLoop(entered, tx, 1, << >>, << >>)
        evs == Append(loop.evs,
                      BatchExecuted(tx.batchId, ADDR0, tx.caller, Len(tx.recipients),
                                    total.total, st.now))
    IN  IF tx.caller \notin st.roles[ADMIN_ROLE]
        THEN Revert(st, "AccessControlUnauthorizedAccount")
        ELSE IF st.paused THEN Revert(st, "EnforcedPause")
        ELSE IF pre # "" THEN Revert(st, pre)
        ELSE IF total.panic THEN Revert(st, "Panic")
        ELSE IF tx.value # total.total THEN Revert(st, "NATIVE_VALUE_MISMATCH")
        ELSE IF loop.err # "ok" THEN RevertWith(st, loop.err, loop.inner)
        ELSE DoneWith([loop.st EXCEPT !.log = @ \o evs], evs, loop.inner)

\* the contract's dispatch on the called function
Apply(st, tx) ==
    CASE tx.op = "token" -> batchDistributeTokenDualSig(st, tx)
      [] tx.op = "native" -> batchDistributeNative(st, tx)
      [] OTHER -> ApplyOpen(st, tx)

\* ------------------------------------------------------------------------
\* Actions
\* ------------------------------------------------------------------------
\* one transaction is mined: the handler runs to completion or reverts
Mined(tx, r) ==
    /\ roles' = r.st.roles
    /\ paused' = r.st.paused
    /\ whitelistedToken' = r.st.whitelistedToken
    /\ isBatchExecuted' = r.st.isBatchExecuted
    /\ maxBatchSize' = r.st.maxBatchSize
    /\ tokenBalance' = r.st.tokenBalance
    /\ nativeBalance' = r.st.nativeBalance
    /\ now' = r.st.now
    /\ log' = r.st.log
    /\ last' = [op |-> tx.op, tx |-> tx, err |-> r.err, evs |-> r.evs,
                inner |-> r.inner]

Mine(tx) ==
    /\ last = NoCall
    /\ Funded(Cur, tx)
    /\ Mined(tx, Apply(Cur, tx))

\* a later block
Tick ==
    /\ last = NoCall
    /\ now < MaxTime
    /\ now' = now + 1
    /\ UNCHANGED <<roles, paused, whitelistedToken, isBatchExecuted, maxBatchSize,
                   tokenBalance, nativeBalance, log, last>>

\* the caller has read the receipt (tx.wait()); the next transaction follows
Return ==
    /\ last # NoCall
    /\ last' = NoCall
    /\ UNCHANGED <<roles, paused, whitelistedToken, isBatchExecuted, maxBatchSize,
                   tokenBalance, nativeBalance, now, log>>

Init ==
    /\ roles = Constructed.roles
    /\ paused = Constructed.paused
    /\ whitelistedToken = Constructed.whitelistedToken
    /\ isBatchExecuted = Constructed.isBatchExecuted
    /\ maxBatchSize = Constructed.maxBatchSize
    /\ tokenBalance = Constructed.tokenBalance
    /\ nativeBalance = Constructed.nativeBalance
    /\ now = Constructed.now
    /\ log = Constructed.log
    /\ last = NoCall

\* ------------------------------------------------------------------------
\* Spec: the life of a deployment.  Any sequence of executions on both
\* paths and of admin operations, by callers with and without roles.
\* ------------------------------------------------------------------------
Callers == {Admin, Verifier}

\* the batches callers submit: well-formed ones with one and two entries,
\* an empty one and one with arrays of different lengths
LedgerBatches ==
    { << <<R2>>, <<1>> >>, << <<R2, R1>>, <<1, 1>> >>, << << >>, << >> >>,
      << <<R2, R1>>, <<1>> >> }

\* the batch ids callers use: bytes32(0) and two others
LedgerBatchIds == {0, 1, MaxBatchId}

\* R2 sends one coin back to the distributor when it is paid
ReturnCoin == [tx |-> ReceiveTx(R2, 1), swallow |-> TRUE]

\* the submitter's signature over exactly this batch
SubmitterSigFor(signer, batchId, token, recipients, amounts, deadline) ==
    Sign(signer, TypedDataHash(getTypedData(ChainId, This, batchId, token,
                                            recipients, amounts, deadline)))

TokenCall ==
    /\ last = NoCall
    /\ \E caller \in Callers, batchId \in LedgerBatchIds, token \in Tokens,
          b \in LedgerBatches, wellSigned \in BOOLEAN :
          \* a malformed signature, the second token and bytes32(0) are
          \* tried on the one-entry batch
          /\ ~wellSigned => b = << <<R2>>, <<1>> >>
          /\ token = IGNET => (b = << <<R2>>, <<1>> >> /\ wellSigned)
          /\ batchId = 0 => (b = << <<R2>>, <<1>> >> /\ wellSigned /\ token = USDT)
          /\ Mine(TokenTx(caller, batchId, token, b[1], b[2], MaxTime, Submitter,
                          IF wellSigned
                          THEN SubmitterSigFor(Submitter, batchId, token, b[1], b[2],
                                               MaxTime)
                          ELSE Malformed,
                          "ok"))

NativeCall ==
    /\ last = NoCall
    /\ \E caller \in Callers, batchId \in LedgerBatchIds, b \in LedgerBatches,
          hook \in {NoHook, ReturnCoin} :
          \* no recipient, no control handed over; bytes32(0) is tried on
          \* the one-entry batch
          /\ b[1] = << >> => hook = NoHook
          /\ batchId = 0 => (b = << <<R2>>, <<1>> >> /\ hook = NoHook)
          /\ Mine(WithHook(NativeTx(caller, batchId, b[1], b[2], sum(b[2]), "ok"), hook))

\* anybody sends coin to the distributor with empty call data
ReceiveCall ==
    /\ last = NoCall
    /\ \E caller \in Callers, value \in 0..1 : Mine(ReceiveTx(caller, value))

PauseCall ==
    /\ last = NoCall
    /\ \E caller \in Callers : Mine(Tx("pause", caller))

UnpauseCall ==
    /\ last = NoCall
    /\ \E caller \in Callers : Mine(Tx("unpause", caller))

SetMaxBatchSizeCall ==
    /\ last = NoCall
    /\ \E caller \in Callers, newMax \in {0, 1, InitMaxBatchSize} :
          Mine([Tx("setMaxBatchSize", caller) EXCEPT !.value = newMax])

SetTokenWhitelistedCall ==
    /\ last = NoCall
    /\ \E caller \in Callers, token \in Tokens \cup {ADDR0}, allowed \in BOOLEAN :
          Mine([Tx("setTokenWhitelisted", caller) EXCEPT !.token = token,
                                                        !.allowed = allowed])

GrantRoleCall ==
    /\ last = NoCall
    /\ \E caller \in Callers :
          Mine([Tx("grantRole", caller) EXCEPT !.role = VERIFIER_ROLE,
                                              !.account = Verifier])

RevokeRoleCall ==
    /\ last = NoCall
    /\ \E caller \in Callers :
          Mine([Tx("revokeRole", caller) EXCEPT !.role = VERIFIER_ROLE,
                                               !.account = Verifier])

RenounceRoleCall ==
    /\ last = NoCall
    /\ \E caller \in Callers, callerConfirmation \in Callers :
          Mine([Tx("renounceRole", caller) EXCEPT !.role = VERIFIER_ROLE,
                                                 !.account = callerConfirmation])

\* the frontend or a backend previews a batch with the read-only helpers
ViewCall ==
    /\ last = NoCall
    /\ \E op \in {"getBatchTokenDigest", "recoverSubmitter"}, b \in LedgerBatches,
          wellSigned \in BOOLEAN :
          /\ op = "getBatchTokenDigest" => wellSigned
          /\ Len(b[1]) = 2 => (Len(b[2]) = 1 /\ wellSigned)
          /\ b[1] = << >> => op = "getBatchTokenDigest"
          /\ Mine([TokenTx(Verifier, 1, USDT, b[1], b[2], MaxTime, Submitter,
                           IF wellSigned
                           THEN SubmitterSigFor(Submitter, 1, USDT, b[1], b[2], MaxTime)
                           ELSE Malformed,
                           "ok") EXCEPT !.op = op])

Next ==
    \/ TokenCall
    \/ NativeCall
    \/ ReceiveCall
    \/ PauseCall
    \/ UnpauseCall
    \/ SetMaxBatchSizeCall
    \/ SetTokenWhitelistedCall
    \/ GrantRoleCall
    \/ RevokeRoleCall
    \/ RenounceRoleCall
    \/ ViewCall
    \/ Return

Spec == Init /\ [][Next]_vars

\* ------------------------------------------------------------------------
\* States a deployment reaches by its first admin operations, used as the
\* starting points of the specifications that explore one transaction with
\* every input.  Each is the constructed state after a subset of `steps`,
\* run in order by the handlers above.
\* ------------------------------------------------------------------------
GrantVerifier ==
    [Tx("grantRole", Admin) EXCEPT !.role = VERIFIER_ROLE, !.account = Verifier]
ShrinkBatches == [Tx("setMaxBatchSize", Admin) EXCEPT !.value = 1]
SpendBatchOne == NativeTx(Admin, 1, <<R1>>, <<1>>, 1, "ok")

RECURSIVE RunSetup(_, _, _, _)
RunSetup(st, steps, chosen, i) ==
    IF i > Len(steps) THEN st
    ELSE RunSetup(IF i \in chosen THEN Apply(st, steps[i]).st ELSE st,
                  steps, chosen, i + 1)

SetupStates(steps) ==
    { RunSetup(Constructed, steps, chosen, 1) : chosen \in SUBSET (1..Len(steps)) }

InitFrom(states) ==
    /\ \E st \in states :
          /\ roles = st.roles
          /\ paused = st.paused
          /\ whitelistedToken = st.whitelistedToken
          /\ isBatchExecuted = st.isBatchExecuted
          /\ maxBatchSize = st.maxBatchSize
          /\ tokenBalance = st.tokenBalance
          /\ nativeBalance = st.nativeBalance
          /\ now = st.now
          /\ log = st.log
    /\ last = NoCall

\* ------------------------------------------------------------------------
\* SpecBatch: one execution, on either path, with every pair of recipients
\* and amounts arrays up to MaxLen, correctly signed by the submitter, and
\* every behaviour of the transfers.
\* ------------------------------------------------------------------------
RecipientLists == SeqsUpTo(RecipientAddrs, MaxLen)
AmountLists == SeqsUpTo(0..MaxAmt, MaxLen)

InitBatch == InitFrom(SetupStates(<<ShrinkBatches, SpendBatchOne>>))

\* batch ids of the three kinds: zero, executed by the setup, unused
SomeBatchIds == {0, SpendBatchOne.batchId, MaxBatchId}

BatchTokenCall ==
    /\ last = NoCall
    /\ \E caller \in {Admin}, batchId \in SomeBatchIds, token \in Tokens,
          recipients \in RecipientLists, amounts \in AmountLists,
          xfer \in {"ok", "revert", "false"} :
          Mine(TokenTx(caller, batchId, token, recipients, amounts, MaxTime, Submitter,
                       SubmitterSigFor(Submitter, batchId, token, recipients, amounts,
                                       MaxTime),
                       xfer))

BatchNativeCall ==
    /\ last = NoCall
    /\ \E caller \in {Admin}, batchId \in SomeBatchIds,
          recipients \in RecipientLists, amounts \in AmountLists,
          value \in 0..UintMax, xfer \in {"ok", "revert"},
          hook \in {NoHook, ReturnCoin} :
          /\ value <= nativeBalance[caller]
          /\ xfer = "revert" => hook = NoHook
          /\ Mine(WithHook(NativeTx(caller, batchId, recipients, amounts, value, xfer),
                           hook))

NextBatch == BatchTokenCall \/ BatchNativeCall

SpecBatch == InitBatch /\ [][NextBatch]_vars

\* ------------------------------------------------------------------------
\* SpecSig: one token execution with every kind of signature: malformed, or
\* made by any signer over the call's own batch or over a batch that differs
\* from it in one field or in the signing domain.
\* ------------------------------------------------------------------------
OtherContract == "other"

Reverse(q) == [i \in 1..Len(q) |-> q[Len(q) + 1 - i]]

SigBatches ==
    { << << >>, << >> >>, << << >>, <<1>> >>, << <<R1>>, <<1>> >>,
      << <<R1, R2>>, <<1>> >>, << <<R1, R2>>, <<1, 2>> >>,
      << <<R1, R2>>, <<MaxAmt, MaxAmt>> >> }

\* what a signer may have signed: <<chainId, contract, batchId, token,
\* recipients, amounts, deadline>>
SignedVariants(batchId, token, recipients, amounts, deadline) ==
    { <<ChainId, This, batchId, token, recipients, amounts, deadline>>,
      <<OtherChainId, This, batchId, token, recipients, amounts, deadline>>,
      <<ChainId, OtherContract, batchId, token, recipients, amounts, deadline>>,
      <<ChainId, This, batchId, token, Reverse(recipients), amounts, deadline>>,
      <<ChainId, This, batchId, token, recipients, Reverse(amounts), deadline>> }
    \cup { <<ChainId, This, b, token, recipients, amounts, deadline>> :
              b \in BatchIds \ {0} }
    \cup { <<ChainId, This, batchId, t, recipients, amounts, deadline>> : t \in Tokens }
    \cup { <<ChainId, This, batchId, token, recipients, amounts, d>> : d \in Times }

SignatureOver(signer, v) ==
    Sign(signer, TypedDataHash(getTypedData(v[1], v[2], v[3], v[4], v[5], v[6], v[7])))

Signers == {Submitter, Verifier}

SignaturesFor(batchId, token, recipients, amounts, deadline) ==
    {Malformed} \cup
    { SignatureOver(signer, v) :
         signer \in Signers,
         v \in SignedVariants(batchId, token, recipients, amounts, deadline) }

InitSig == InitFrom(SetupStates(<<GrantVerifier, ShrinkBatches, SpendBatchOne>>))

SigTokenCall ==
    /\ last = NoCall
    /\ \E caller \in Callers, batchId \in SomeBatchIds, token \in Tokens,
          b \in SigBatches, deadline \in Times,
          submitter \in {Submitter, Verifier, Phantom} :
          \E sig \in SignaturesFor(batchId, token, b[1], b[2], deadline) :
             Mine(TokenTx(caller, batchId, token, b[1], b[2], deadline, submitter,
                          sig, "ok"))

NextSig == SigTokenCall \/ Tick

SpecSig == InitSig /\ [][NextSig]_vars

\* ------------------------------------------------------------------------
\* SpecReenter: one call.  An execution, on either path, during which the
\* recipient R2, with or without the roles, calls the distributor: an
\* execution function, for the running batchId or another one, an admin
\* operation, or a plain payment.  Or an admin operation or a read-only
\* helper called on its own.
\* ------------------------------------------------------------------------
GrantRecipientVerifier ==
    [Tx("grantRole", Admin) EXCEPT !.role = VERIFIER_ROLE, !.account = R2]
GrantRecipientAdmin ==
    [Tx("grantRole", Admin) EXCEPT !.role = ADMIN_ROLE, !.account = R2]
GrantRecipientDefaultAdmin ==
    [Tx("grantRole", Admin) EXCEPT !.role = DEFAULT_ADMIN_ROLE, !.account = R2]

PauseAll == Tx("pause", Admin)

InitReenter ==
    InitFrom(SetupStates(<<GrantRecipientVerifier, GrantRecipientAdmin,
                           GrantRecipientDefaultAdmin, SpendBatchOne, PauseAll>>))

\* batches that pay R2 first, last, alone or twice
ReentrantBatches ==
    { << <<R2>>, <<1>> >>, << <<R1, R2>>, <<1, 1>> >>, << <<R2, R1>>, <<1, 1>> >>,
      << <<R2, R2>>, <<1, 1>> >> }

FreshBatchIds == SomeBatchIds \ {0}

\* the execution calls R2 makes when it has control: a native or a token
\* execution of a one-entry batch, validly signed by the submitter
ExecutionHookCalls ==
    { NativeTx(R2, b, <<R1>>, <<1>>, 1, "ok") : b \in FreshBatchIds }
    \cup
    { TokenTx(R2, b, USDT, <<R1>>, <<1>>, MaxTime, Submitter,
              SubmitterSigFor(Submitter, b, USDT, <<R1>>, <<1>>, MaxTime),
              "ok") : b \in FreshBatchIds }

\* the role operations R2 calls: it gives up a role of its own, confirms
\* with another account's address, grants a role or takes one from the
\* admin
RoleHookCalls ==
    { [Tx("renounceRole", R2) EXCEPT !.role = r, !.account = a] :
         r \in {ADMIN_ROLE, VERIFIER_ROLE}, a \in {R2, Admin} }
    \cup
    { [Tx("grantRole", R2) EXCEPT !.role = VERIFIER_ROLE, !.account = Verifier],
      [Tx("revokeRole", R2) EXCEPT !.role = VERIFIER_ROLE, !.account = Admin] }

\* the other calls R2 makes: the admin operations, the role operations and
\* a payment of one coin
OtherHookCalls ==
    { Tx("pause", R2),
      Tx("unpause", R2),
      [Tx("setMaxBatchSize", R2) EXCEPT !.value = 0],
      [Tx("setMaxBatchSize", R2) EXCEPT !.value = 1],
      [Tx("setTokenWhitelisted", R2) EXCEPT !.token = USDT, !.allowed = FALSE],
      [Tx("setTokenWhitelisted", R2) EXCEPT !.token = IGNET, !.allowed = TRUE],
      ReceiveTx(R2, 1) }
    \cup RoleHookCalls

\* what R2 does when it has control
Hooks ==
    {NoHook} \cup
    { [tx |-> t, swallow |-> s] :
         t \in ExecutionHookCalls \cup OtherHookCalls, s \in BOOLEAN }

ReenterNativeCall ==
    /\ last = NoCall
    /\ \E batchId \in FreshBatchIds, b \in ReentrantBatches, hook \in Hooks :
          Mine(WithHook(NativeTx(Admin, batchId, b[1], b[2], sum(b[2]), "ok"), hook))

ReenterTokenCall ==
    /\ last = NoCall
    /\ \E batchId \in FreshBatchIds, b \in ReentrantBatches, hook \in Hooks :
          Mine(WithHook(TokenTx(Admin, batchId, USDT, b[1], b[2], MaxTime, Submitter,
                                SubmitterSigFor(Submitter, batchId, USDT, b[1], b[2],
                                                MaxTime),
                                "ok"),
                        hook))

\* an admin or role operation on its own, by an account with or without
\* the role
OneAdminCall ==
    /\ last = NoCall
    /\ \E caller \in {Admin, Verifier, R2}, t \in OtherHookCalls \ {ReceiveTx(R2, 1)} :
          Mine([t EXCEPT !.caller = caller])

\* a read-only helper on its own
OneViewCall ==
    /\ last = NoCall
    /\ \E op \in {"getBatchTokenDigest", "recoverSubmitter"}, t \in ExecutionHookCalls :
          /\ t.op = "token"
          /\ Mine([t EXCEPT !.op = op])

NextReenter == ReenterNativeCall \/ ReenterTokenCall \/ OneAdminCall \/ OneViewCall

SpecReenter == InitReenter /\ [][NextReenter]_vars

\* ------------------------------------------------------------------------
\* SpecDigest: the two digest builders applied to the same batch and signing
\* domain: the typed data of the off-chain companion as signTypedData hashes
\* it, and the contract's getBatchTokenDigest on that deployment.
\* ------------------------------------------------------------------------
SigningDomains ==
    { <<ChainId, This>>, <<OtherChainId, This>>, <<ChainId, OtherContract>> }

DigestPreview ==
    /\ last = NoCall
    /\ \E dom \in SigningDomains, batchId \in SomeBatchIds, token \in Tokens,
          recipients \in RecipientLists, amounts \in AmountLists, deadline \in Times :
          LET td == getTypedData(dom[1], dom[2], batchId, token, recipients, amounts,
                                 deadline)
          IN  last' = [op |-> "digest", chainId |-> dom[1], contract |-> dom[2],
                       batchId |-> batchId, token |-> token, recipients |-> recipients,
                       amounts |-> amounts, deadline |-> deadline,
                       typedData |-> td,
                       offchain |-> TypedDataHash(td),
                       onchain |-> getBatchTokenDigest(dom[1], dom[2], batchId, token,
                                                       recipients, amounts, deadline)]
    /\ UNCHANGED <<roles, paused, whitelistedToken, isBatchExecuted, maxBatchSize,
                   tokenBalance, nativeBalance, now, log>>

NextDigest == DigestPreview \/ Return

SpecDigest == Init /\ [][NextDigest]_vars

\* ------------------------------------------------------------------------
\* Properties
\* ------------------------------------------------------------------------
IsExecution(l) == l.op \in {"token", "native"}

\* the step mines an execution call (on either path)
ExecutionStep == last = NoCall /\ IsExecution(last')

\* nothing is paid and nothing is recorded by the step
NothingMoves == UNCHANGED <<tokenBalance, nativeBalance, log, isBatchExecuted>>

AggregateRecords(b) ==
    { i \in 1..Len(log) : log[i].ev = "BatchExecuted" /\ log[i].batchId = b }

\* C1 as stated: an execution call for a batchId that is already executed
\* fails with BatchAlreadyExecuted and pays nothing, whatever its other
\* arguments are.
C1_AsStated ==
    [][(ExecutionStep /\ isBatchExecuted[last'.tx.batchId])
          => (last'.err = "BatchAlreadyExecuted" /\ NothingMoves)]_vars

\* the checks that run before the replay check of _precheckBatch: the role
\* and pause modifiers and, on the token path, the allow-list
PassesGate(tx) ==
    /\ tx.caller \in roles[IF tx.op = "token" THEN VERIFIER_ROLE ELSE ADMIN_ROLE]
    /\ ~paused
    /\ tx.op = "token" => whitelistedToken[tx.token]

\* C1 (amended): an execution call for a batchId that is already executed
\* always fails and pays nothing, whatever its other arguments are; its
\* error is BatchAlreadyExecuted whenever the call passes the checks that
\* precede the replay check (caller's role, pause, token allow-list), and
\* the error of the first of those checks that fails otherwise.
C1_ReplayRejected ==
    [][(ExecutionStep /\ isBatchExecuted[last'.tx.batchId])
          => /\ last'.err # "ok"
             /\ NothingMoves
             /\ PassesGate(last'.tx) <=> last'.err = "BatchAlreadyExecuted"
             /\ last'.err \in {"BatchAlreadyExecuted", "AccessControlUnauthorizedAccount",
                               "EnforcedPause", "TokenNotWhitelisted"}]_vars

\* a token call was rejected as a replay of a batchId that the native path
\* executed with another number of recipients
C1_Witness ==
    /\ last.op = "token"
    /\ last.err = "BatchAlreadyExecuted"
    /\ \E i \in AggregateRecords(last.tx.batchId) :
          /\ log[i].token = ADDR0
          /\ log[i].recipients # Len(last.tx.recipients)

\* C2: in every sequence of execution calls on both paths, at most one call
\* per batchId succeeds: the log never holds two aggregate records, nor two
\* dual-signature records, for one batchId, and the per-transfer records of
\* a batchId are those of its single execution.
C2_AtMostOnce ==
    \A b \in BatchIds :
       /\ Cardinality(AggregateRecords(b)) <= 1
       /\ Cardinality({ i \in 1..Len(log) :
                          log[i].ev = "BatchExecutedWithDualSig"
                          /\ log[i].batchId = b }) <= 1
       /\ Cardinality({ i \in 1..Len(log) :
                          log[i].ev = "TransferItem" /\ log[i].batchId = b })
             = IF AggregateRecords(b) = {} THEN 0
               ELSE log[CHOOSE i \in AggregateRecords(b) : TRUE].recipients

\* two batchIds are executed, one on each path, and a further call for one
\* of them has just failed
C2_Witness ==
    /\ IsExecution(last)
    /\ last.err = "BatchAlreadyExecuted"
    /\ \E b1, b2 \in BatchIds :
          /\ b1 # b2
          /\ \E i \in AggregateRecords(b1) : log[i].token = ADDR0
          /\ \E i \in AggregateRecords(b2) : log[i].token # ADDR0

\* C3: the executed flag is monotonic: a batchId that is executed stays
\* executed through every step (executions, failed calls, admin operations),
\* and the flag has no third value.
C3_ExecutedIsTerminal ==
    [][\A b \in BatchIds :
          /\ isBatchExecuted'[b] \in BOOLEAN
          /\ isBatchExecuted[b] => isBatchExecuted'[b]]_vars

\* an admin operation succeeded while a batchId was executed
C3_Witness ==
    /\ last.op \in {"pause", "unpause", "setMaxBatchSize", "setTokenWhitelisted"}
    /\ last.err = "ok"
    /\ \E b \in BatchIds : isBatchExecuted[b]

TokenStep == last = NoCall /\ last'.op = "token"

\* the digest the contract builds for a call's own fields
OwnDigest(tx) ==
    getBatchTokenDigest(ChainId, This, tx.batchId, tx.token, tx.recipients,
                        tx.amounts, tx.deadline)

\* C4: a token execution succeeds only if the signature verifies as the
\* declared submitter's over the digest of the call's own batchId, token,
\* recipients, amounts and deadline; when the declared submitter signed a
\* digest of other fields (or of another signing domain), the call fails and
\* nothing moves.
C4_SignatureBindsBatch ==
    [][TokenStep =>
         LET tx == last'.tx
             d == OwnDigest(tx)
         IN  /\ last'.err = "ok" =>
                   /\ ~d.panic
                   /\ tx.sig # Malformed
                   /\ Recover(d.digest, tx.sig).addr = tx.submitter
                   /\ tx.submitter \in Signers => tx.sig = Sign(tx.submitter, d.digest)
             /\ (tx.sig # Malformed /\ tx.sig.signer = tx.submitter
                   /\ tx.sig.digest # d.digest)
                   => (last'.err # "ok" /\ NothingMoves)]_vars

\* the submitter signed the batch with the amounts in the other order, and
\* the call was rejected for its signer
C4_Witness ==
    /\ last.op = "token"
    /\ last.err = "InvalidSigner"
    /\ Reverse(last.tx.amounts) # last.tx.amounts
    /\ last.tx.sig =
          SignatureOver(last.tx.submitter,
                        <<ChainId, This, last.tx.batchId, last.tx.token,
                          last.tx.recipients, Reverse(last.tx.amounts),
                          last.tx.deadline>>)

\* a batch whose total fits the unsigned integer type
FitsUint(amounts) == SumFrom(amounts, 1) <= UintMax

\* C5: for every batch whose total fits and every signing domain, the typed
\* data of getTypedData hashes to the digest getBatchTokenDigest returns:
\* same domain name and version, same BatchToken members in the same order,
\* same hashes of the encoded arrays, totalAmount the sum of the amounts.
C5_DigestsAgree ==
    (last.op = "digest" /\ FitsUint(last.amounts)) =>
       /\ ~last.onchain.panic
       /\ last.offchain = last.onchain.digest
       /\ last.typedData.domain =
             [name |-> "BatchDistributorV2", version |-> "1",
              chainId |-> last.chainId, verifyingContract |-> last.contract]
       /\ last.typedData.types.BatchToken = BatchTokenMembers
       /\ last.typedData.value.totalAmount = SumFrom(last.amounts, 1)
       /\ last.typedData.value.totalAmount = _sum(last.amounts).total
       /\ last.typedData.value.recipientsHash = Keccak(AbiEncodeArray(last.recipients))
       /\ last.typedData.value.amountsHash = Keccak(AbiEncodeArray(last.amounts))

\* both digests were built for a batch of two different amounts
C5_Witness ==
    /\ last.op = "digest"
    /\ Len(last.recipients) = 2
    /\ Len(last.amounts) = 2
    /\ last.amounts[1] # last.amounts[2]
    /\ FitsUint(last.amounts)
    /\ last.offchain = last.onchain.digest

\* the call meets a token transfer that fails: a transfer to R2 that the
\* token reverts or answers with false
TransferFails(tx) ==
    tx.xfer # "ok" /\ \E i \in 1..Len(tx.recipients) : tx.recipients[i] = R2

\* C6 as stated: when the distributor's token balance is below the total,
\* or a token transfer of the loop fails, the token execution aborts as a
\* whole: the batchId stays unexecuted, no balance changes, no event is
\* recorded.
C6_AsStated ==
    [][(TokenStep /\ FitsUint(last'.tx.amounts)
          /\ \/ tokenBalance[last'.tx.token][This] < SumFrom(last'.tx.amounts, 1)
             \/ TransferFails(last'.tx))
          => /\ last'.err # "ok"
             /\ last'.evs = << >>
             /\ NothingMoves]_vars

\* the caller holds the verifier role and the contract is not paused
PassesModifiers(tx) == tx.caller \in roles[VERIFIER_ROLE] /\ ~paused

\* the earliest violated precondition of a token call in the order of the
\* claim, "" when none is violated
FirstViolated(tx) ==
    IF ~whitelistedToken[tx.token] THEN "TokenNotWhitelisted"
    ELSE IF tx.batchId = 0 THEN "InvalidAmount"
    ELSE IF isBatchExecuted[tx.batchId] THEN "BatchAlreadyExecuted"
    ELSE IF Len(tx.recipients) = 0 THEN "EmptyBatch"
    ELSE IF Len(tx.recipients) # Len(tx.amounts) THEN "InvalidArrayLengths"
    ELSE IF Len(tx.recipients) > maxBatchSize THEN "BatchTooLarge"
    ELSE IF tx.sig = Malformed THEN "InvalidSignature"
    ELSE IF Recover(OwnDigest(tx).digest, tx.sig).addr # tx.submitter
         THEN "InvalidSigner"
    ELSE IF tx.submitter = tx.caller THEN "SameSubmitterAndExecutorNotAllowed"
    ELSE ""

\* C7 as stated: a token call that gets past the role and pause modifiers,
\* with a total that fits, reports the earliest violated precondition in the
\* order token not whitelisted, batchId zero, batchId executed, no
\* recipients, lengths differ, more recipients than maxBatchSize, signature
\* recovering no signer (InvalidSignature), signer other than the declared
\* submitter (InvalidSigner), submitter equal to the caller.
C7_AsStated ==
    [][(TokenStep /\ PassesModifiers(last'.tx) /\ FitsUint(last'.tx.amounts)
          /\ FirstViolated(last'.tx) # "")
          => last'.err = FirstViolated(last'.tx)]_vars

\* C8 as stated: every token call whose declared submitter is the caller
\* fails with SameSubmitterAndExecutorNotAllowed, and no recorded
\* dual-signature execution has its submitter as its executor.
C8_AsStated ==
    [][/\ (TokenStep /\ last'.tx.submitter = last'.tx.caller) =>
             last'.err = "SameSubmitterAndExecutorNotAllowed"
       /\ \A i \in 1..Len(log') :
             log'[i].ev = "BatchExecutedWithDualSig"
                => log'[i].submitter # log'[i].verifierExecutor]_vars

\* C8: a token call whose declared submitter is the caller never executes
\* and moves nothing; when every earlier check passes, the signature being
\* the submitter's own over the call's digest, the error is
\* SameSubmitterAndExecutorNotAllowed; no recorded dual-signature execution
\* has its submitter as its executor.
C8_SeparationOfDuty ==
    [][/\ (TokenStep /\ last'.tx.submitter = last'.tx.caller) =>
             LET tx == last'.tx
             IN  /\ last'.err # "ok"
                 /\ NothingMoves
                 /\ (/\ PassesModifiers(tx)
                     /\ whitelistedToken[tx.token]
                     /\ _precheckBatch(Cur, tx.batchId, Len(tx.recipients),
                                       Len(tx.amounts)) = ""
                     /\ ~OwnDigest(tx).panic
                     /\ tx.sig = Sign(tx.submitter, OwnDigest(tx).digest))
                       => last'.err = "SameSubmitterAndExecutorNotAllowed"
       /\ \A i \in 1..Len(log') :
             log'[i].ev = "BatchExecutedWithDualSig"
                => log'[i].submitter # log'[i].verifierExecutor]_vars

\* the caller submitted its own validly signed batch and was rejected for it
C8_Witness ==
    /\ last.op = "token"
    /\ last.tx.submitter = last.tx.caller
    /\ last.tx.sig = Sign(last.tx.caller, OwnDigest(last.tx).digest)
    /\ last.err = "SameSubmitterAndExecutorNotAllowed"

\* C9 as stated: a batch whose recipients and amounts differ in length
\* fails with InvalidArrayLengths on either path and nothing moves.
C9_AsStated ==
    [][(ExecutionStep /\ Len(last'.tx.recipients) # Len(last'.tx.amounts))
          => (last'.err = "InvalidArrayLengths" /\ NothingMoves)]_vars

\* C9: a batch whose recipients and amounts differ in length fails on
\* either path and nothing moves; the error is InvalidArrayLengths whenever
\* the call passes the role, pause and whitelist checks with a nonzero,
\* unexecuted batchId and at least one recipient, even when the batch is
\* also larger than maxBatchSize.
C9_LengthMismatchRejected ==
    [][(ExecutionStep /\ Len(last'.tx.recipients) # Len(last'.tx.amounts)) =>
          LET tx == last'.tx
          IN  /\ last'.err # "ok"
              /\ last'.evs = << >>
              /\ NothingMoves
              /\ (PassesGate(tx) /\ tx.batchId # 0 /\ ~isBatchExecuted[tx.batchId]
                    /\ Len(tx.recipients) > 0)
                   => last'.err = "InvalidArrayLengths"]_vars

\* a native batch of more recipients than amounts, and more than
\* maxBatchSize, was rejected for its lengths
C9_Witness ==
    /\ last.op = "native"
    /\ Len(last.tx.recipients) > Len(last.tx.amounts)
    /\ Len(last.tx.recipients) > maxBatchSize
    /\ last.err = "InvalidArrayLengths"

RECURSIVE PaidTo(_, _, _, _)
\* the amounts of entries i.. of the batch that go to r
PaidTo(r, recipients, amounts, i) ==
    IF i > Len(recipients) THEN 0
    ELSE (IF recipients[i] = r THEN amounts[i] ELSE 0)
         + PaidTo(r, recipients, amounts, i + 1)

\* every precondition of a token distribution holds
TokenPreconditions(tx) ==
    /\ ~paused
    /\ tx.caller \in roles[VERIFIER_ROLE]
    /\ tx.caller # tx.submitter
    /\ whitelistedToken[tx.token]
    /\ tx.batchId # 0
    /\ ~isBatchExecuted[tx.batchId]
    /\ 1 <= Len(tx.recipients)
    /\ Len(tx.recipients) = Len(tx.amounts)
    /\ Len(tx.recipients) <= maxBatchSize
    /\ \A i \in 1..Len(tx.recipients) : tx.recipients[i] # ADDR0
    /\ \A i \in 1..Len(tx.amounts) : tx.amounts[i] # 0
    /\ FitsUint(tx.amounts)
    /\ tx.sig = Sign(tx.submitter, OwnDigest(tx).digest)
    /\ tokenBalance[tx.token][This] >= SumFrom(tx.amounts, 1)

\* C10 as stated: when every precondition holds (and the token reverts no
\* transfer), the token distribution succeeds; every recipient's token
\* balance grows by exactly the amounts of its entries, the distributor's
\* falls by the total, the batchId becomes executed, one transfer record per
\* entry is emitted in order, then one aggregate record with the count, the
\* total and the timestamp.
C10_AsStated ==
    [][(TokenStep /\ TokenPreconditions(last'.tx) /\ last'.tx.xfer # "revert") =>
          LET tx == last'.tx
              n == Len(tx.recipients)
              total == SumFrom(tx.amounts, 1)
          IN  /\ last'.err = "ok"
              /\ \A r \in TokenHolders \ {This} :
                    tokenBalance'[tx.token][r] =
                       tokenBalance[tx.token][r] + PaidTo(r, tx.recipients, tx.amounts, 1)
              /\ tokenBalance'[tx.token][This] = tokenBalance[tx.token][This] - total
              /\ isBatchExecuted'[tx.batchId]
              /\ Len(last'.evs) = n + 2
              /\ \A i \in 1..n :
                    last'.evs[i] = TransferItem(tx.batchId, tx.token, tx.recipients[i],
                                                tx.amounts[i])
              /\ last'.evs[n + 1] =
                    BatchExecutedWithDualSig(tx.batchId, tx.token, tx.submitter,
                                             tx.caller, n, total, now)
              /\ last'.evs[n + 2] =
                    BatchExecuted(tx.batchId, tx.token, tx.caller, n, total, now)
              /\ log' = log \o last'.evs]_vars

\* C11 as stated: a token batch whose deadline has passed (deadline earlier
\* than the block's timestamp) is never executed.
C11_AsStated ==
    [][(TokenStep /\ last'.tx.deadline < now) => last'.err # "ok"]_vars

\* the signatures a call to batchDistributeTokenDualSig carries: its one
\* bytes argument
SuppliedSignatures(tx) == {tx.sig}

\* C12 as stated: a token batch is executed only when the call carries,
\* besides the submitter's signature, a signature over the call's digest
\* that recovers to the caller.
C12_AsStated ==
    [][(TokenStep /\ last'.err = "ok") =>
          /\ Recover(OwnDigest(last'.tx).digest, last'.tx.sig).addr = last'.tx.submitter
          /\ \E s \in SuppliedSignatures(last'.tx) :
                Recover(OwnDigest(last'.tx).digest, s) =
                   [reverted |-> FALSE, addr |-> last'.tx.caller]]_vars

\* the role that gates an execution path
GateRole(tx) == IF tx.op = "token" THEN VERIFIER_ROLE ELSE ADMIN_ROLE

\* C13: an execution call succeeds only when the contract is not paused and
\* the caller holds the verifier role (token path) or the admin role
\* (native path); a call made while paused or without the role is rejected
\* by the modifiers, marks no batchId executed, moves no funds and emits
\* nothing.
C13_GatedByRoleAndPause ==
    [][ExecutionStep =>
          LET tx == last'.tx
          IN  /\ last'.err = "ok" => (~paused /\ tx.caller \in roles[GateRole(tx)])
              /\ tx.caller \notin roles[GateRole(tx)]
                    => last'.err = "AccessControlUnauthorizedAccount"
              /\ (tx.caller \in roles[GateRole(tx)] /\ paused)
                    => last'.err = "EnforcedPause"
              /\ (paused \/ tx.caller \notin roles[GateRole(tx)])
                    => (NothingMoves /\ last'.evs = << >>)]_vars

\* an admin's native batch that lacks nothing else was rejected because the
\* contract is paused
C13_Witness ==
    /\ last.op = "native"
    /\ last.err = "EnforcedPause"
    /\ paused
    /\ last.tx.caller \in roles[ADMIN_ROLE]
    /\ _precheckBatch(Cur, last.tx.batchId, Len(last.tx.recipients),
                      Len(last.tx.amounts)) = ""
    /\ last.tx.value = sum(last.tx.amounts)

\* signing domains other than the deployment's own (ChainId, This)
ForeignDomains == { <<OtherChainId, This>>, <<ChainId, OtherContract>> }

\* tx carries its declared submitter's signature over the same batch fields
\* under the signing domain dom
SignedForDomain(tx, dom) ==
    tx.sig = SignatureOver(tx.submitter,
                           <<dom[1], dom[2], tx.batchId, tx.token, tx.recipients,
                             tx.amounts, tx.deadline>>)

\* C14: a signature the submitter made for a signing domain with another
\* chain id or another contract address is not accepted by this deployment:
\* the call with the same batch fields, submitter and signature fails and
\* moves nothing, with InvalidSigner whenever it gets as far as the
\* signature verification.
C14_DomainBound ==
    [][(TokenStep /\ \E dom \in ForeignDomains : SignedForDomain(last'.tx, dom)) =>
          LET tx == last'.tx
          IN  /\ last'.err # "ok"
              /\ NothingMoves
              /\ (/\ PassesModifiers(tx)
                  /\ whitelistedToken[tx.token]
                  /\ _precheckBatch(Cur, tx.batchId, Len(tx.recipients),
                                    Len(tx.amounts)) = ""
                  /\ FitsUint(tx.amounts))
                    => last'.err = "InvalidSigner"]_vars

\* a batch the submitter signed for the other chain id was rejected here
\* for its signer
C14_Witness ==
    /\ last.op = "token"
    /\ last.err = "InvalidSigner"
    /\ last.tx.submitter = Submitter
    /\ last.tx.caller # Submitter
    /\ SignedForDomain(last.tx, <<OtherChainId, This>>)

NativeStep == last = NoCall /\ last'.op = "native"

\* the coin the recipients sent to the distributor, through receive(), while
\* the transfers of the transaction l gave them control
RECURSIVE ReturnedFrom(_, _)
ReturnedFrom(inner, i) ==
    IF i > Len(inner) THEN 0
    ELSE (IF inner[i].tx.op = "receive" /\ inner[i].err = "ok"
          THEN inner[i].tx.value ELSE 0) + ReturnedFrom(inner, i + 1)

\* C15 as stated: a native distribution succeeds only if the attached value
\* equals the sum of the amounts, fails and changes nothing otherwise, and
\* a successful one leaves the distributor's own native balance as it was.
C15_AsStated ==
    [][NativeStep =>
          LET tx == last'.tx
              exact == SumFrom(tx.amounts, 1)
          IN  /\ last'.err = "ok" => tx.value = exact
              /\ tx.value # exact => (last'.err # "ok" /\ NothingMoves)
              /\ last'.err = "ok" => nativeBalance'[This] = nativeBalance[This]]_vars

\* C15: a native distribution succeeds only if the attached value equals
\* the sum of the amounts; with a smaller or larger value the call fails
\* (with NATIVE_VALUE_MISMATCH when it gets that far), the batchId stays
\* unexecuted and nobody is paid; a successful one pays out exactly the
\* attached value, every recipient exactly its entries, and the
\* distributor's own native balance ends as it was plus the coin the
\* recipients sent back to it while they had control.
C15_ValueEqualsTotal ==
    [][NativeStep =>
          LET tx == last'.tx
              exact == SumFrom(tx.amounts, 1)
              returned == ReturnedFrom(last'.inner, 1)
          IN  /\ last'.err = "ok" => tx.value = exact
              /\ tx.value # exact =>
                    /\ last'.err # "ok"
                    /\ NothingMoves
                    /\ last'.evs = << >>
                    /\ (/\ PassesGate(tx)
                        /\ _precheckBatch(Cur, tx.batchId, Len(tx.recipients),
                                          Len(tx.amounts)) = ""
                        /\ FitsUint(tx.amounts))
                          => last'.err = "NATIVE_VALUE_MISMATCH"
              /\ last'.err = "ok" =>
                    /\ nativeBalance'[This] = nativeBalance[This] + returned
                    /\ nativeBalance'[tx.caller] = nativeBalance[tx.caller] - tx.value
                    /\ nativeBalance'[R1] =
                          nativeBalance[R1] + PaidTo(R1, tx.recipients, tx.amounts, 1)
                    /\ nativeBalance'[R2] =
                          nativeBalance[R2] + PaidTo(R2, tx.recipients, tx.amounts, 1)
                             - returned
                    /\ PaidTo(R1, tx.recipients, tx.amounts, 1)
                          + PaidTo(R2, tx.recipients, tx.amounts, 1) = tx.value
                    /\ Len(last'.evs) = Len(tx.recipients) + 1
                    /\ \A i \in 1..Len(tx.recipients) :
                          last'.evs[i] = TransferItem(tx.batchId, ADDR0, tx.recipients[i],
                                                      tx.amounts[i])]_vars

\* a native batch with more value attached than its total was rejected for
\* the mismatch
C15_Witness ==
    /\ last.op = "native"
    /\ last.err = "NATIVE_VALUE_MISMATCH"
    /\ last.tx.value > sum(last.tx.amounts)
    /\ ~isBatchExecuted[last.tx.batchId]

\* the batch has a zero recipient or a zero amount at some position
HasZeroEntry(tx) ==
    \/ \E i \in 1..Len(tx.recipients) : tx.recipients[i] = ADDR0
    \/ \E i \in 1..Len(tx.amounts) : tx.amounts[i] = 0

\* C16: a batch with a zero recipient or a zero amount at any position is
\* not executed on either path: the call fails, the batchId's executed flag
\* is what it was before the call, no balance has changed (the entries before
\* the zero one keep nothing) and no event is recorded.
C16_ZeroEntryRejected ==
    [][(ExecutionStep /\ HasZeroEntry(last'.tx)) =>
          /\ last'.err # "ok"
          /\ last'.evs = << >>
          /\ isBatchExecuted'[last'.tx.batchId] = isBatchExecuted[last'.tx.batchId]
          /\ NothingMoves]_vars

\* a token batch was rejected at its second entry, a zero recipient, after
\* its first entry had been transferred; the batchId is unexecuted and the
\* first recipient has nothing
C16_Witness ==
    /\ last.op = "token"
    /\ last.err = "ZeroAddress"
    /\ Len(last.tx.recipients) = 2
    /\ last.tx.recipients[1] = R1
    /\ last.tx.amounts[1] > 0
    /\ last.tx.recipients[2] = ADDR0
    /\ ~isBatchExecuted[last.tx.batchId]
    /\ tokenBalance[last.tx.token][R1] = 0

AdminOps == {"pause", "unpause", "setMaxBatchSize", "setTokenWhitelisted"}

ViewOps == {"getBatchTokenDigest", "recoverSubmitter"}

\* C18 as stated: the executed flags change only through a successful
\* execution, and then only the flag of the executed batchId; a successful
\* execution leaves the allow-list, maxBatchSize and the pause state as they
\* were; the admin operations, the read-only helpers and every failed
\* execution leave the ledger and the balances unchanged.
C18_AsStated ==
    [][(last = NoCall /\ last' # NoCall) =>
          /\ (IsExecution(last') /\ last'.err = "ok") =>
                /\ isBatchExecuted' =
                      [isBatchExecuted EXCEPT ![last'.tx.batchId] = TRUE]
                /\ UNCHANGED <<whitelistedToken, maxBatchSize, paused>>
          /\ (\/ last'.op \in AdminOps \cup ViewOps
              \/ (IsExecution(last') /\ last'.err # "ok")) =>
                UNCHANGED <<isBatchExecuted, tokenBalance, nativeBalance>>]_vars

\* a call with operation op that a recipient made, successfully, while a
\* transfer of the transaction l gave it control
InnerDone(l, op) ==
    \E i \in 1..Len(l.inner) : l.inner[i].tx.op = op /\ l.inner[i].err = "ok"

\* a role operation with operation name in ops that a recipient made,
\* successfully, while a transfer of the transaction l gave it control
InnerRoleDone(l, ops) ==
    \E i \in 1..Len(l.inner) : l.inner[i].tx.op \in ops /\ l.inner[i].err = "ok"

\* C18: the executed flags change only through a successful execution, and
\* then only the flag of the executed batchId, from false to true; the
\* allow-list, maxBatchSize and the pause state change in a successful
\* execution only through an admin operation that a recipient holding the
\* admin role called while a transfer gave it control, and the roles only
\* through a role operation the recipient called then: renounceRole for
\* itself, or grantRole or revokeRole when it holds the default admin role;
\* an execution in which no recipient calls back leaves all of them as they
\* were; the admin operations leave the ledger and the balances unchanged;
\* the read-only helpers and every failed execution leave everything
\* unchanged.
C18_Frame ==
    [][(last = NoCall /\ last' # NoCall) =>
          /\ (IsExecution(last') /\ last'.err = "ok") =>
                /\ ~isBatchExecuted[last'.tx.batchId]
                /\ isBatchExecuted' =
                      [isBatchExecuted EXCEPT ![last'.tx.batchId] = TRUE]
                /\ roles' # roles =>
                      \/ InnerRoleDone(last', {"renounceRole"})
                      \/ (/\ InnerRoleDone(last', {"grantRole", "revokeRole"})
                          /\ R2 \in roles[DEFAULT_ADMIN_ROLE])
                /\ \A r \in Roles :
                      /\ roles'[r] \ roles[r] # {} => InnerRoleDone(last', {"grantRole"})
                      /\ roles[r] \ roles'[r] \subseteq {R2} \/
                            InnerRoleDone(last', {"revokeRole"})
                /\ paused' # paused =>
                      (InnerDone(last', "pause") /\ R2 \in roles[ADMIN_ROLE])
                /\ maxBatchSize' # maxBatchSize =>
                      (InnerDone(last', "setMaxBatchSize") /\ R2 \in roles[ADMIN_ROLE])
                /\ whitelistedToken' # whitelistedToken =>
                      (InnerDone(last', "setTokenWhitelisted")
                       /\ R2 \in roles[ADMIN_ROLE])
                /\ last'.inner = << >> =>
                      UNCHANGED <<roles, whitelistedToken, maxBatchSize, paused>>
          /\ last'.op \in AdminOps =>
                UNCHANGED <<isBatchExecuted, tokenBalance, nativeBalance>>
          /\ (last'.op \in ViewOps \/ (IsExecution(last') /\ last'.err # "ok")) =>
                UNCHANGED <<roles, paused, whitelistedToken, isBatchExecuted,
                            maxBatchSize, tokenBalance, nativeBalance, now, log>>
          /\ isBatchExecuted' # isBatchExecuted =>
                (IsExecution(last') /\ last'.err = "ok")]_vars

\* a batchId was executed while another batchId, executed earlier, stayed
\* as it was, and the recipient, holding the admin role, paused the
\* contract from inside the execution
C18_Witness ==
    /\ IsExecution(last)
    /\ last.err = "ok"
    /\ \E b \in BatchIds : b # last.tx.batchId /\ isBatchExecuted[b]
    /\ ~isBatchExecuted[0]
    /\ InnerDone(last, "pause")
    /\ paused

\* the totalAmount word inside a digest: digest = keccak(prefix, domain
\* separator, keccak(typehash, batchId, token, recipientsHash, amountsHash,
\* totalAmount, deadline))
DigestTotal(digest) == digest[2][3][2][6]

\* C19: totalAmount never wraps.  For every amounts array _sum returns the
\* exact arithmetic sum or, when the sum exceeds the largest unsigned
\* integer, panics, and then getBatchTokenDigest and the execution fail with
\* nothing moved; the total inside the digest, the total compared with the
\* balance or the attached value, and the total of the aggregate records of
\* a successful execution are the exact sum.
C19_SumNeverWraps ==
    [][ExecutionStep =>
          LET tx == last'.tx
              exact == SumFrom(tx.amounts, 1)
              s == _sum(tx.amounts)
              d == OwnDigest(tx)
          IN  /\ exact <= UintMax =>
                    /\ s = [panic |-> FALSE, total |-> exact]
                    /\ s.total = sum(tx.amounts)
                    /\ ~d.panic
                    /\ DigestTotal(d.digest) = exact
              /\ exact > UintMax =>
                    /\ s.panic
                    /\ d.panic
                    /\ last'.err # "ok"
                    /\ NothingMoves
              /\ last'.err = "ok" =>
                    /\ exact <= UintMax
                    /\ \A i \in 1..Len(last'.evs) :
                          last'.evs[i].ev # "TransferItem"
                             => last'.evs[i].totalAmount = exact
                    /\ tx.op = "native" => tx.value = exact
                    /\ tx.op = "token" => tokenBalance[tx.token][This] >= exact]_vars

\* a native batch whose amounts sum to more than the largest unsigned
\* integer got past the prechecks and failed in _sum
C19_Witness ==
    /\ last.op = "native"
    /\ last.err = "Panic"
    /\ Len(last.tx.amounts) = 2
    /\ SumFrom(last.tx.amounts, 1) > UintMax
    /\ ~isBatchExecuted[last.tx.batchId]

\* batchId b has an aggregate record of the native path (token address
\* zero) / a dual-signature record of the token path
ExecutedNatively(b) == \E i \in AggregateRecords(b) : log[i].token = ADDR0

ExecutedWithDualSig(b) ==
    \E i \in 1..Len(log) : log[i].ev = "BatchExecutedWithDualSig" /\ log[i].batchId = b

\* the call's path is not the one that executed its batchId
ExecutedOnOtherPath(tx) ==
    \/ tx.op = "token" /\ ExecutedNatively(tx.batchId)
    \/ tx.op = "native" /\ ExecutedWithDualSig(tx.batchId)

\* C20 as stated: after a native execution of batchId b every token call
\* with batchId b fails with BatchAlreadyExecuted, and a batchId executed on
\* the token path is never executed on the native path.
C20_AsStated ==
    [][(ExecutionStep /\ ExecutedOnOtherPath(last'.tx)) =>
          /\ last'.err # "ok"
          /\ NothingMoves
          /\ last'.tx.op = "token" => last'.err = "BatchAlreadyExecuted"]_vars

\* C20 (amended): the two paths share one ledger: a call on one path for a
\* batchId executed on the other path always fails and moves nothing, a
\* valid submitter signature notwithstanding; the error is
\* BatchAlreadyExecuted whenever the call passes the role, pause and
\* allow-list checks.
C20_SharedLedger ==
    [][(ExecutionStep /\ ExecutedOnOtherPath(last'.tx)) =>
          /\ last'.err # "ok"
          /\ last'.evs = << >>
          /\ NothingMoves
          /\ PassesGate(last'.tx) => last'.err = "BatchAlreadyExecuted"]_vars

\* a validly signed token batch that was never paid out was rejected as
\* already executed, its batchId having been used on the native path
C20_Witness ==
    /\ last.op = "token"
    /\ last.err = "BatchAlreadyExecuted"
    /\ ExecutedNatively(last.tx.batchId)
    /\ ~ExecutedWithDualSig(last.tx.batchId)
    /\ Len(last.tx.recipients) = 1
    /\ last.tx.sig = Sign(last.tx.submitter, OwnDigest(last.tx).digest)
    /\ last.tx.caller # last.tx.submitter

\* the step mines an execution during which R2 has called back
ReenterStep == ExecutionStep /\ last'.tx.hook # NoHook

ExecutionOps == {"token", "native"}

\* C17: every call R2 makes into an execution function while a transfer
\* loop has handed it control fails, whether for the running batchId or
\* another and whether or not R2 holds the roles: with the reentrancy
\* guard's error when R2 holds the role and can pay the value it attaches.
\* A running execution during which R2 makes such calls and which succeeds
\* ends exactly as it does without them; whatever R2 calls, a successful
\* execution marks its own batchId only and pays every entry once, and one
\* that fails leaves nothing changed.
C17_NoReentrantExecution ==
    [][ReenterStep =>
          LET tx == last'.tx
              hook == tx.hook
              plain == Apply(Cur, WithHook(tx, NoHook))
          IN  /\ \A i \in 1..Len(last'.inner) :
                    last'.inner[i].tx.op \in ExecutionOps =>
                       /\ last'.inner[i].err \in
                             {"ReentrancyGuardReentrantCall",
                              "AccessControlUnauthorizedAccount", "InsufficientFunds"}
                       /\ last'.inner[i].err = "InsufficientFunds" =>
                             (hook.tx.op = "native" /\ tx.op = "token")
                       /\ (/\ hook.tx.caller \in roles[GateRole(hook.tx)]
                           /\ ~(hook.tx.op = "native" /\ tx.op = "token"))
                             => last'.inner[i].err = "ReentrancyGuardReentrantCall"
              /\ last'.err = "ok" =>
                    /\ plain.err = "ok"
                    /\ isBatchExecuted' = [isBatchExecuted EXCEPT ![tx.batchId] = TRUE]
                    /\ tokenBalance' = plain.st.tokenBalance
                    /\ log' = plain.st.log
                    /\ last'.evs = plain.evs
                    /\ hook.tx.op \in ExecutionOps =>
                          /\ nativeBalance' = plain.st.nativeBalance
                          /\ UNCHANGED <<roles, paused, whitelistedToken, maxBatchSize>>
              /\ last'.err # "ok" =>
                    UNCHANGED <<roles, paused, whitelistedToken, isBatchExecuted,
                                maxBatchSize, tokenBalance, nativeBalance, now, log>>]_vars

\* R2, holding the role, was paid twice in a native batch and each time
\* called back for another batchId; both calls hit the guard and the batch
\* completed
C17_Witness ==
    /\ last.op = "native"
    /\ last.err = "ok"
    /\ last.tx.recipients = <<R2, R2>>
    /\ last.tx.hook.tx.op \in ExecutionOps
    /\ last.tx.hook.tx.batchId # last.tx.batchId
    /\ last.tx.hook.tx.caller \in roles[GateRole(last.tx.hook.tx)]
    /\ Len(last.inner) = 2
    /\ \A i \in 1..2 : last.inner[i].err = "ReentrancyGuardReentrantCall"
    /\ ~isBatchExecuted[last.tx.hook.tx.batchId]
====
